---------------------------- MODULE Spec2Model ----------------------------
(***************************************************************************)
(* Model of src/nodes/FillPdf/fillpdf-processor.py: one run of main(),     *)
(* from reading the request to process exit, with the request validator,   *)
(* the inspect and fill operations, the field mapping validator, the value *)
(* coercion and the error classifier.  The fillpdf engine                  *)
(* (get_form_fields, write_fillable_pdf) is an external library: its       *)
(* outcomes are nondeterministic choices.                                  *)
(***************************************************************************)
EXTENDS Integers, Sequences, FiniteSets, TLC

(***************************************************************************)
(* Bounds of the model.                                                    *)
(***************************************************************************)
\* longest fieldMappings object of a request
MaxMappings == 2
\* most fields get_form_fields reports for a document under inspection
MaxFields == 2

(***************************************************************************)
(* Program constants.                                                      *)
(***************************************************************************)
\* 50 * 1024 * 1024: the ceiling on len(pdf_data)
SizeLimit == 52428800
\* the ceiling on the length of a string value
MaxValueLen == 10000
\* how many available field names an error message previews
PreviewLimit == 10

(***************************************************************************)
(* Sequences helpers.                                                      *)
(***************************************************************************)
Range(s) == {s[i] : i \in 1..Len(s)}

Min(a, b) == IF a < b THEN a ELSE b

RECURSIVE Repeat(_, _)
Repeat(c, n) == IF n = 0 THEN <<>> ELSE <<c>> \o Repeat(c, n - 1)

(***************************************************************************)
(* base64.b64decode(s) in its default, non-strict mode (binascii            *)
(* a2b_base64): characters outside the alphabet are discarded, a complete  *)
(* padding ends the parse, and the data characters left over must fill a   *)
(* quad.  A text is [head, run]: the characters of head followed by run    *)
(* copies of "A", so that a text longer than SizeLimit can be written.     *)
(***************************************************************************)
B64Alphabet ==
    << "A","B","C","D","E","F","G","H","I","J","K","L","M","N","O","P",
       "Q","R","S","T","U","V","W","X","Y","Z","a","b","c","d","e","f",
       "g","h","i","j","k","l","m","n","o","p","q","r","s","t","u","v",
       "w","x","y","z","0","1","2","3","4","5","6","7","8","9","+","/" >>

\* the value of each character of the alphabet
B64Table == [c \in Range(B64Alphabet) |-> (CHOOSE i \in 1..64 : B64Alphabet[i] = c) - 1]

IsB64Char(c) == c \in DOMAIN B64Table

B64Index(c) == B64Table[c]

\* st = [q: quad position, left: bits carried, pads, out: bytes, done]
B64Step(st, c) ==
    IF st.done THEN st
    ELSE IF c = "="
    THEN IF st.q >= 2 /\ st.q + st.pads + 1 >= 4
         THEN [st EXCEPT !.done = TRUE, !.pads = st.pads + 1]
         ELSE IF st.q >= 2 THEN [st EXCEPT !.pads = st.pads + 1] ELSE st
    ELSE IF ~IsB64Char(c) THEN st
    ELSE LET v == B64Index(c) IN
         CASE st.q = 0 -> [st EXCEPT !.q = 1, !.left = v, !.pads = 0]
           [] st.q = 1 -> [st EXCEPT !.q = 2, !.pads = 0,
                              !.out = st.out \o <<(st.left * 4) + (v \div 16)>>,
                              !.left = v % 16]
           [] st.q = 2 -> [st EXCEPT !.q = 3, !.pads = 0,
                              !.out = st.out \o <<(st.left * 16) + (v \div 4)>>,
                              !.left = v % 4]
           [] st.q = 3 -> [st EXCEPT !.q = 0, !.pads = 0,
                              !.out = st.out \o <<(st.left * 64) + v>>,
                              !.left = 0]

RECURSIVE B64Run(_, _)
B64Run(st, cs) == IF cs = <<>> THEN st ELSE B64Run(B64Step(st, Head(cs)), Tail(cs))

\* [ok, bytes]: bytes is the decoded prefix; the 4-blocks of the run that are
\* not expanded only append zero bytes after it.
B64Decode(text) ==
    LET st == B64Run([q |-> 0, left |-> 0, pads |-> 0, out |-> <<>>, done |-> FALSE],
                     text.head \o Repeat("A", text.run % 4))
    IN  [ok |-> st.done \/ st.q = 0, bytes |-> st.out]

TextLen(text) == Len(text.head) + text.run

\* pdf_bytes.startswith(b'%PDF')
StartsWithPdf(bytes) ==
    Len(bytes) >= 4 /\ SubSeq(bytes, 1, 4) = <<37, 80, 68, 70>>

(***************************************************************************)
(* Field names.  NameOrder lists the names the model uses in Python's      *)
(* string order, which sorted() applies in the validator's message.        *)
(***************************************************************************)
NameOrder == << "", "Name", "Subscribe", "Unknown" >>

\* the keys a request's fieldMappings draws from
KeyNames == {"Name", "Subscribe", "Unknown"}

\* sorted(S) for a set of names
SortNames(S) == SelectSeq(NameOrder, LAMBDA n : n \in S)

(***************************************************************************)
(* Values of a fieldMappings entry, as json.loads produces them.  text is  *)
(* what str() / json.dumps() gives for the value, len the length of a      *)
(* string value, nan tells a float for which value != value.               *)
(***************************************************************************)
Val(type, text, len, nan) == [type |-> type, text |-> text, len |-> len, nan |-> nan]

VNull  == Val("null", "None", 0, FALSE)
VTrue  == Val("bool", "True", 0, FALSE)
VFalse == Val("bool", "False", 0, FALSE)
VInt   == Val("int", "7", 0, FALSE)
VNaN   == Val("float", "nan", 0, TRUE)
VEmpty == Val("str", "", 0, FALSE)
VAnn   == Val("str", "Ann", 3, FALSE)
VLong  == Val("str", "LongText", MaxValueLen + 1, FALSE)
VList  == Val("list", "[1]", 0, FALSE)

Values == {VNull, VTrue, VFalse, VInt, VNaN, VEmpty, VAnn, VLong, VList}

\* a fieldMappings object: entries in the order of the JSON text, keys distinct
Mappings ==
    UNION {
      { m \in [1..n -> [key : KeyNames, value : Values]] :
          \A i, j \in 1..n : i # j => m[i].key # m[j].key }
      : n \in 0..Min(MaxMappings, Cardinality(KeyNames)) }

Keys(fm) == {fm[i].key : i \in 1..Len(fm)}

(***************************************************************************)
(* Messages.  id names the message template, names the field names put     *)
(* into it, avail / more the preview of available names, wrap the          *)
(* prefixes added by enclosing handlers, outermost first.                  *)
(***************************************************************************)
Msg(id, names) == [id |-> id, names |-> names, avail |-> <<>>, more |-> 0, wrap |-> <<>>]

Wrap(prefix, msg) == [msg EXCEPT !.wrap = <<prefix>> \o msg.wrap]

\* the text of an engine or library failure: the set of the substrings the
\* handlers look for that the lower-cased text contains
FailureTexts ==
    { {"corrupt"}, {"damaged"}, {"password"}, {"encrypted"}, {"permission"},
      {"field"}, {"permission", "field"}, {"pdf"}, {} }

\* the texts the handlers of a failed get_form_fields tell apart
ListingFailureTexts == { {"corrupt"}, {"damaged"}, {"password"}, {"encrypted"}, {} }

(***************************************************************************)
(* PdfProcessor._convert_field_mappings                                    *)
(***************************************************************************)
\* a coercion of one value that takes not-a-number for a number
ConvertValueNoNaNCheck(key, v) ==
    IF v.type = "str" /\ v.len > MaxValueLen
    THEN [ok |-> FALSE, text |-> "", err |-> Msg("ValueTooLong", <<key>>)]
    ELSE [ok |-> TRUE,
          text |-> IF v.type = "bool" THEN (IF v = VTrue THEN "Yes" ELSE "Off") ELSE v.text,
          err |-> Msg("", <<>>)]

\* the string one entry's value becomes, or the ValueError raised for it
ConvertValue(key, v) ==
    CASE v.type = "bool" ->
           [ok |-> TRUE, text |-> IF v = VTrue THEN "Yes" ELSE "Off", err |-> Msg("", <<>>)]
      [] v.type \in {"int", "float"} ->
           IF v.type = "float" /\ v.nan
           THEN [ok |-> FALSE, text |-> "", err |-> Msg("InvalidNumericNaN", <<key>>)]
           ELSE [ok |-> TRUE, text |-> v.text, err |-> Msg("", <<>>)]
      [] v.type = "str" ->
           IF v.len > MaxValueLen
           THEN [ok |-> FALSE, text |-> "", err |-> Msg("ValueTooLong", <<key>>)]
           ELSE [ok |-> TRUE, text |-> v.text, err |-> Msg("", <<>>)]
      [] OTHER ->
           [ok |-> TRUE, text |-> v.text, err |-> Msg("", <<>>)]

RECURSIVE ConvertLoop(_, _)
ConvertLoop(fm, converted) ==
    IF fm = <<>> THEN [ok |-> TRUE, converted |-> converted, error |-> Msg("", <<>>)]
    ELSE LET e == Head(fm) IN
         IF e.value.type = "null" THEN ConvertLoop(Tail(fm), converted)
         ELSE LET c == ConvertValue(e.key, e.value) IN
              IF c.ok
              THEN ConvertLoop(Tail(fm), Append(converted, [key |-> e.key, text |-> c.text]))
              ELSE [ok |-> FALSE, converted |-> <<>>,
                    error |-> [Wrap("FieldConversionError", c.err)
                                 EXCEPT !.names = <<e.key>> \o c.err.names]]

\* a coercion that returns an empty mapping
ConvertFieldMappingsAllowEmpty(fm) == ConvertLoop(fm, <<>>)

\* [ok, converted, error]: error is the message of the PdfProcessingError
\* (always of kind data) the function raises
ConvertFieldMappings(fm) ==
    LET r == ConvertLoop(fm, <<>>) IN
    IF r.ok /\ r.converted = <<>>
    THEN [ok |-> FALSE, converted |-> <<>>, error |-> Msg("NoValidFieldMappings", <<>>)]
    ELSE r

(***************************************************************************)
(* PdfProcessor._validate_field_mappings.  listing is what get_form_fields *)
(* did: [kind: "ok" | "raise", text, fields].                              *)
(***************************************************************************)
FieldNamesOf(fields) == {fields[i].name : i \in 1..Len(fields)}

InvalidFields(fields, fm) == Keys(fm) \ FieldNamesOf(fields)

\* a message that lists every mapped name, not only the unknown ones
FieldsNotFoundMsgAllMapped(fields, fm) ==
    [id |-> "FieldsNotFound", names |-> SortNames(Keys(fm)),
     avail |-> SortNames(FieldNamesOf(fields)), more |-> 0, wrap |-> <<>>]

FieldsNotFoundMsg(fields, fm) ==
    LET sorted == SortNames(FieldNamesOf(fields))
        n == Cardinality(FieldNamesOf(fields))
    IN  [id |-> "FieldsNotFound",
         names |-> SortNames(InvalidFields(fields, fm)),
         avail |-> SubSeq(sorted, 1, Min(PreviewLimit, Len(sorted))),
         more |-> IF n > PreviewLimit THEN n - PreviewLimit ELSE 0,
         wrap |-> <<>>]

RECURSIVE ValueLoop(_)
ValueLoop(fm) ==
    IF fm = <<>> THEN [valid |-> TRUE, error |-> Msg("", <<>>)]
    ELSE LET e == Head(fm) IN
         IF e.value.type = "null" \/ e.value = VEmpty THEN ValueLoop(Tail(fm))
         ELSE IF e.value.type = "str" /\ e.value.len > MaxValueLen
         THEN [valid |-> FALSE, error |-> Msg("ValueTooLong", <<e.key>>)]
         ELSE ValueLoop(Tail(fm))

\* a validator that does not look the mapped names up in the document
ValidateFieldMappingsNoLookup(listing, fm) ==
    IF listing.kind = "raise"
    THEN [valid |-> FALSE, error |-> Msg("FailedToReadFields", <<>>)]
    ELSE IF listing.fields = <<>>
    THEN [valid |-> FALSE, error |-> Msg("NoFillableFields", <<>>)]
    ELSE ValueLoop(fm)

ValidateFieldMappings(listing, fm) ==
    IF listing.kind = "raise"
    THEN IF "corrupt" \in listing.text \/ "damaged" \in listing.text
         THEN [valid |-> FALSE, error |-> Msg("Corrupted", <<>>)]
         ELSE IF "password" \in listing.text \/ "encrypted" \in listing.text
         THEN [valid |-> FALSE, error |-> Msg("PasswordProtected", <<>>)]
         ELSE [valid |-> FALSE, error |-> Msg("FailedToReadFields", <<>>)]
    ELSE IF listing.fields = <<>>
    THEN [valid |-> FALSE, error |-> Msg("NoFillableFields", <<>>)]
    ELSE IF InvalidFields(listing.fields, fm) # {}
    THEN [valid |-> FALSE, error |-> FieldsNotFoundMsg(listing.fields, fm)]
    ELSE ValueLoop(fm)

\* a count that takes the empty string for a filled value
FilledFieldCountNonNull(fm) ==
    Cardinality({i \in 1..Len(fm) : fm[i].value.type # "null"})

\* len([v for v in field_mappings.values() if v is not None and v != ""])
FilledFieldCount(fm) ==
    Cardinality({i \in 1..Len(fm) : fm[i].value.type # "null" /\ fm[i].value # VEmpty})

(***************************************************************************)
(* PdfProcessor._parse_field_info.  A raw field entry of the engine is      *)
(* [shape: "dict" | "list" | "other", ...]; hint is the set of the          *)
(* substrings looked for that str(type).lower() contains; an item is        *)
(* [isNull, text] with text what str() gives for it.  fails names the       *)
(* conversion of the entry that raises ("none" when all succeed): "type"    *)
(* for str(type), "options" and "items" for str() of an entry of the        *)
(* options or of the sequence, "maxLength" for an int() error other than    *)
(* ValueError and TypeError, "required" for bool(), "default" for str() of  *)
(* the default value.  maxLengthOk = FALSE is the ValueError or TypeError   *)
(* of int() that the code ignores.                                          *)
(***************************************************************************)
Item(isNull, text) == [isNull |-> isNull, text |-> text]

Raw(shape, hint, hasOptions, optionsIsList, items, hasMaxLength, maxLengthOk, maxLength, hasRequired, required, hasDefault, default) ==
    [shape |-> shape, hint |-> hint, hasOptions |-> hasOptions,
     optionsIsList |-> optionsIsList, items |-> items,
     hasMaxLength |-> hasMaxLength, maxLengthOk |-> maxLengthOk,
     maxLength |-> maxLength, hasRequired |-> hasRequired, required |-> required,
     hasDefault |-> hasDefault, default |-> default, fails |-> "none"]

\* the same entry with one conversion that raises
Failing(raw, step) == [raw EXCEPT !.fails = step]

Descriptor(name, type) ==
    [name |-> name, type |-> type, required |-> FALSE,
     defaultValue |-> Item(TRUE, ""), hasOptions |-> FALSE, options |-> <<>>,
     maxLength |-> 0, parseError |-> ""]

\* [str(opt) for opt in items]
StrAll(items) == [i \in 1..Len(items) |-> IF items[i].isNull THEN "None" ELSE items[i].text]

\* [str(opt) for opt in items if opt is not None]
StrNonNull(items) ==
    LET kept == SelectSeq(items, LAMBDA it : ~it.isNull)
    IN  [i \in 1..Len(kept) |-> kept[i].text]

\* lines 433-454: [d, raised], d the descriptor so far, raised whether a
\* conversion raised and the inner handler (463-465) ended the reading
ParseType(d, raw) ==
    IF raw.fails = "type" THEN [d |-> d, raised |-> TRUE]
    ELSE IF "checkbox" \in raw.hint \/ "check" \in raw.hint
    THEN [d |-> [d EXCEPT !.type = "checkbox"], raised |-> FALSE]
    ELSE IF "radio" \in raw.hint \/ "dropdown" \in raw.hint \/ "choice" \in raw.hint
    THEN LET t == IF "radio" \in raw.hint THEN "radio" ELSE "dropdown" IN
         IF raw.hasOptions /\ raw.optionsIsList
         THEN IF raw.fails = "options" /\ raw.items # <<>>
              THEN [d |-> [d EXCEPT !.type = t], raised |-> TRUE]
              ELSE [d |-> [d EXCEPT !.type = t, !.hasOptions = TRUE,
                                    !.options = StrAll(raw.items)],
                    raised |-> FALSE]
         ELSE [d |-> [d EXCEPT !.type = t], raised |-> FALSE]
    ELSE IF raw.hasMaxLength /\ raw.fails = "maxLength"
    THEN [d |-> [d EXCEPT !.type = "text"], raised |-> TRUE]
    ELSE IF raw.hasMaxLength /\ raw.maxLengthOk /\ raw.maxLength > 0
    THEN [d |-> [d EXCEPT !.type = "text", !.maxLength = raw.maxLength], raised |-> FALSE]
    ELSE [d |-> [d EXCEPT !.type = "text"], raised |-> FALSE]

\* lines 430-465
ParseDict(d, raw) ==
    LET typed == ParseType(d, raw)
        req == IF typed.raised \/ ~raw.hasRequired THEN typed
               ELSE IF raw.fails = "required" THEN [typed EXCEPT !.raised = TRUE]
               ELSE [typed EXCEPT !.d.required = raw.required]
    IN  IF req.raised \/ ~raw.hasDefault \/ raw.default.isNull \/ raw.fails = "default"
        THEN req.d
        ELSE [req.d EXCEPT !.defaultValue = Item(FALSE, raw.default.text)]

\* a normalizer of sequences that keeps the null entries
ParseListKeepNulls(d, raw) ==
    IF Len(raw.items) > 0
    THEN [d EXCEPT !.type = "dropdown", !.hasOptions = TRUE, !.options = StrAll(raw.items)]
    ELSE d

\* lines 467-475
ParseList(d, raw) ==
    IF Len(raw.items) > 0
    THEN IF raw.fails = "items" /\ \E i \in 1..Len(raw.items) : ~raw.items[i].isNull
         THEN [d EXCEPT !.type = "dropdown"]
         ELSE [d EXCEPT !.type = "dropdown", !.hasOptions = TRUE,
                        !.options = StrNonNull(raw.items)]
    ELSE d

ParseFieldInfo(name, raw) ==
    IF name = ""
    THEN [Descriptor("unknown", "text") EXCEPT !.parseError = "Invalid field name"]
    ELSE LET d == Descriptor(name, "text") IN
         CASE raw.shape = "dict" -> ParseDict(d, raw)
           [] raw.shape = "list" -> ParseList(d, raw)
           [] OTHER -> d

(***************************************************************************)
(* The responses, and ErrorHandler.handle_exception.  errorType "absent"   *)
(* and details "absent" say that the object has no such key.               *)
(***************************************************************************)
Response(success, errorType, error, details) ==
    [success |-> success, errorType |-> errorType, error |-> error,
     details |-> details, fields |-> <<>>, fieldCount |-> 0,
     filledFieldCount |-> 0, hasData |-> FALSE]

Failure(errorType, error) == Response(FALSE, errorType, error, "absent")

\* an exception: its class, the markers its text contains, and, for a
\* PdfProcessingError, its error_type and message
Exc(cls, text) == [cls |-> cls, text |-> text, error_type |-> "", msg |-> Msg("", <<>>)]

PdfProcessingError(msg, error_type) ==
    [cls |-> "PdfProcessingError", text |-> {}, error_type |-> error_type, msg |-> msg]

\* the classes of the exceptions the model raises, each with the classes
\* isinstance() finds it an instance of
ClassBases ==
    [c \in {"PdfProcessingError", "FileNotFoundError", "PermissionError", "MemoryError",
            "ValueError", "UnicodeDecodeError", "TypeError", "OSError", "KeyError",
            "Exception"} |->
       CASE c = "FileNotFoundError"  -> {"FileNotFoundError", "OSError", "Exception"}
         [] c = "PermissionError"    -> {"PermissionError", "OSError", "Exception"}
         [] c = "UnicodeDecodeError" -> {"UnicodeDecodeError", "ValueError", "Exception"}
         [] OTHER -> {c, "Exception"}]

\* isinstance(e, cls)
IsInstance(e, cls) == e.cls \in DOMAIN ClassBases /\ cls \in ClassBases[e.cls]

\* a classifier that falls back to a kind outside the taxonomy
HandleExceptionUnknownKind(e, context) ==
    Response(FALSE,
             IF e.cls = "PdfProcessingError" THEN e.error_type
             ELSE IF e.cls = "MemoryError" THEN "runtime" ELSE "unknown",
             Wrap(context, Msg("Exception", <<>>)), "exception")

\* a classifier that looks at the failure text before the class
HandleExceptionTextFirst(e, context) ==
    LET typ == IF IsInstance(e, "PdfProcessingError") THEN e.error_type
               ELSE IF "pdf" \in e.text \/ "corrupt" \in e.text THEN "data"
               ELSE IF IsInstance(e, "FileNotFoundError") \/ IsInstance(e, "ValueError")
                       \/ IsInstance(e, "TypeError")
               THEN "data" ELSE "runtime"
    IN  Response(FALSE, typ,
                 IF context # "" THEN Wrap(context, Msg("Exception", <<>>))
                 ELSE Msg("Exception", <<>>), "exception")

HandleException(e, context) ==
    LET typ == CASE IsInstance(e, "PdfProcessingError") -> e.error_type
                 [] IsInstance(e, "FileNotFoundError") -> "data"
                 [] IsInstance(e, "PermissionError") -> "runtime"
                 [] IsInstance(e, "MemoryError") -> "runtime"
                 [] IsInstance(e, "ValueError") -> "data"
                 [] IsInstance(e, "TypeError") -> "data"
                 [] OTHER -> IF "pdf" \in e.text \/ "corrupt" \in e.text
                             THEN "data" ELSE "runtime"
        msg == CASE IsInstance(e, "PdfProcessingError") -> e.msg
                 [] IsInstance(e, "FileNotFoundError") -> Msg("FileNotFound", <<>>)
                 [] IsInstance(e, "PermissionError") -> Msg("PermissionDenied", <<>>)
                 [] IsInstance(e, "MemoryError") -> Msg("InsufficientMemory", <<>>)
                 [] IsInstance(e, "ValueError") -> Msg("InvalidData", <<>>)
                 [] IsInstance(e, "TypeError") -> Msg("InvalidDataType", <<>>)
                 [] OTHER -> IF "pdf" \in e.text \/ "corrupt" \in e.text
                             THEN Msg("PdfFileError", <<>>) ELSE Msg("Exception", <<>>)
    IN  Response(FALSE, typ, IF context # "" THEN Wrap(context, msg) ELSE msg, "exception")

\* main's handler of a PdfProcessingError raised by an operation
RaisedResult(e) == Response(FALSE, e.error_type, e.msg, "null")

(***************************************************************************)
(* ErrorHandler.validate_input_data.  A request is the parsed JSON object: *)
(* has* say which keys it has.  The result is the error response, or       *)
(* NoError for None.  decoded tells whether base64.b64decode was called.   *)
(***************************************************************************)
NoError == Response(TRUE, "absent", Msg("", <<>>), "absent")

\* a validator that reports every violation as config
ValidateInputDataAllConfig(req) ==
    IF ~req.hasAction THEN Failure("config", Msg("MissingRequiredField", <<"action">>))
    ELSE IF ~req.hasPdf THEN Failure("config", Msg("MissingRequiredField", <<"pdfData">>))
    ELSE IF req.action \notin {"inspect", "fill"}
    THEN Failure("config", Msg("InvalidAction", <<>>))
    ELSE IF req.pdf.isStr /\ TextLen(req.pdf) = 0
    THEN Failure("config", Msg("PdfDataEmpty", <<>>))
    ELSE IF ~req.pdf.isStr \/ ~B64Decode(req.pdf).ok
    THEN Failure("config", Msg("InvalidBase64", <<>>))
    ELSE IF req.action = "fill" /\ req.fmKind # "dict"
    THEN Failure("config", Msg("FieldMappingsRequired", <<>>))
    ELSE Response(TRUE, "absent", Msg("", <<>>), "absent")

ValidateInputData(req) ==
    IF ~req.hasAction THEN Failure("config", Msg("MissingRequiredField", <<"action">>))
    ELSE IF ~req.hasPdf THEN Failure("config", Msg("MissingRequiredField", <<"pdfData">>))
    ELSE IF req.action \notin {"inspect", "fill"}
    THEN Failure("config", Msg("InvalidAction", <<>>))
    ELSE IF req.pdf.isStr /\ TextLen(req.pdf) = 0
    THEN Failure("data", Msg("PdfDataEmpty", <<>>))
    ELSE IF ~req.pdf.isStr \/ ~B64Decode(req.pdf).ok
    THEN Failure("data", Msg("InvalidBase64", <<>>))
    ELSE IF req.action = "fill" /\ req.fmKind = "missing"
    THEN Failure("config", Msg("FieldMappingsRequired", <<>>))
    ELSE IF req.action = "fill" /\ req.fmKind # "dict"
    THEN Failure("config", Msg("FieldMappingsNotDict", <<>>))
    ELSE NoError

\* whether validate_input_data reaches its base64.b64decode call
ValidatorDecodes(req) ==
    /\ req.hasAction /\ req.hasPdf
    /\ req.action \in {"inspect", "fill"}
    /\ ~(req.pdf.isStr /\ TextLen(req.pdf) = 0)

(***************************************************************************)
(* The documents and requests the model draws from.                        *)
(***************************************************************************)
Text(isStr, head, run) == [isStr |-> isStr, head |-> head, run |-> run]

PdfEmptyText  == Text(TRUE, <<>>, 0)
\* a pdfData that is a JSON number
PdfNumber     == Text(FALSE, <<>>, 0)
PdfBadPadding == Text(TRUE, <<"J","V","B">>, 0)
\* b"Hello"
PdfHello      == Text(TRUE, <<"S","G","V","s","b","G","8","=">>, 0)
\* no character of the alphabet: decodes to b""
PdfJunk       == Text(TRUE, <<"!","!","!","!">>, 0)
\* b"%PDF"
PdfNoFields   == Text(TRUE, <<"J","V","B","E","R","g","=","=">>, 0)
\* b"%PDF-1"
PdfForm       == Text(TRUE, <<"J","V","B","E","R","i","0","x">>, 0)
\* b"%PDF-2"
PdfOdd        == Text(TRUE, <<"J","V","B","E","R","i","0","y">>, 0)
\* b"%PDF-3"
PdfSingle     == Text(TRUE, <<"J","V","B","E","R","i","0","z">>, 0)
\* b"%PDF-1" and zero bytes, SizeLimit characters in all
PdfAtLimit    == Text(TRUE, PdfForm.head, SizeLimit - Len(PdfForm.head))
\* the same, longer than SizeLimit
PdfHuge       == Text(TRUE, PdfForm.head, SizeLimit)

PdfSamples ==
    { PdfEmptyText, PdfNumber, PdfBadPadding, PdfHello, PdfJunk, PdfNoFields,
      PdfForm, PdfOdd, PdfSingle, PdfAtLimit, PdfHuge }

NoItem == Item(TRUE, "")

RawText  == Raw("dict", {"text"}, FALSE, FALSE, <<>>, TRUE, TRUE, 20, FALSE, FALSE, FALSE, NoItem)
RawCheck == Raw("dict", {"check", "checkbox"}, FALSE, FALSE, <<>>, FALSE, FALSE, 0,
                TRUE, TRUE, TRUE, Item(FALSE, "Off"))
RawList  == Raw("list", {}, FALSE, FALSE, <<Item(FALSE, "A"), Item(TRUE, ""), Item(FALSE, "B")>>,
                FALSE, FALSE, 0, FALSE, FALSE, FALSE, NoItem)
RawOther == Raw("other", {}, FALSE, FALSE, <<>>, FALSE, FALSE, 0, FALSE, FALSE, FALSE, NoItem)

\* a radio group: options with a null among them, required false
RawRadio    == Raw("dict", {"radio"}, TRUE, TRUE, <<Item(FALSE, "Yes"), Item(TRUE, "")>>,
                   FALSE, FALSE, 0, TRUE, FALSE, FALSE, NoItem)
\* a choice field whose options are no list
RawChoice   == Raw("dict", {"choice"}, TRUE, FALSE, <<>>, FALSE, FALSE, 0,
                   FALSE, FALSE, TRUE, NoItem)
RawDropdown == Raw("dict", {"dropdown"}, TRUE, TRUE, <<Item(FALSE, "A"), Item(FALSE, "B")>>,
                   FALSE, FALSE, 0, TRUE, TRUE, TRUE, Item(FALSE, "B"))
\* a text field whose maxLength is no number
RawBadMax   == Raw("dict", {}, FALSE, FALSE, <<>>, TRUE, FALSE, 0, TRUE, TRUE, FALSE, NoItem)
RawEmptyList == Raw("list", {}, FALSE, FALSE, <<>>, FALSE, FALSE, 0, FALSE, FALSE, FALSE, NoItem)
RawNullList  == Raw("list", {}, FALSE, FALSE, <<Item(TRUE, ""), Item(TRUE, "")>>,
                    FALSE, FALSE, 0, FALSE, FALSE, FALSE, NoItem)

\* the raw entries a document under inspection draws from
RawSamples ==
    { RawText, RawCheck, RawList, RawOther, RawRadio, RawChoice, RawDropdown,
      RawBadMax, RawEmptyList, RawNullList,
      Failing(RawText, "type"), Failing(RawText, "maxLength"),
      Failing(RawCheck, "required"), Failing(RawCheck, "default"),
      Failing(RawDropdown, "options"), Failing(RawList, "items"),
      Failing(RawNullList, "items") }

Field(name, raw) == [name |-> name, raw |-> raw]

\* the names of the fields of a document under inspection; a dict has no
\* two entries of one name
FieldNames == {"", "Name", "Subscribe"}

\* what get_form_fields may return for a document under inspection
FieldListings ==
    UNION {
      { f \in [1..n -> [name : FieldNames, raw : RawSamples]] :
          \A i, j \in 1..n : i # j => f[i].name # f[j].name }
      : n \in 0..Min(MaxFields, Cardinality(FieldNames)) }

\* what get_form_fields reports for a document, by the document's bytes
DocumentFields(bytes) ==
    IF Len(bytes) < 6 THEN <<>>
    ELSE CASE SubSeq(bytes, 5, 6) = <<45, 49>> ->
                << Field("Name", RawText), Field("Subscribe", RawCheck) >>
           [] SubSeq(bytes, 5, 6) = <<45, 50>> ->
                << Field("Subscribe", RawList), Field("", RawOther), Field("Name", RawText) >>
           [] SubSeq(bytes, 5, 6) = <<45, 51>> ->
                << Field("Subscribe", RawCheck) >>
           [] OTHER -> <<>>

Listing(kind, text, fields) == [kind |-> kind, text |-> text, fields |-> fields]

NoListing == Listing("none", {}, <<>>)

\* the outcomes of fillpdfs.get_form_fields on a document
ListingOutcomes(bytes) ==
    {Listing("ok", {}, DocumentFields(bytes))}
      \cup {Listing("raise", t, <<>>) : t \in ListingFailureTexts}

\* the outcomes of fillpdfs.write_fillable_pdf: the bytes written are empty
\* or not, or the call raises
WriteOutcomes ==
    {[kind |-> "ok", text |-> {}], [kind |-> "empty", text |-> {}]}
      \cup {[kind |-> "raise", text |-> t] : t \in FailureTexts}

\* what a statement of an operation outside its inner handlers may raise
UnexpectedFailures ==
    { Exc("MemoryError", {}), Exc("Exception", {"pdf"}), Exc("Exception", {}) }

Request(kind, hasAction, action, hasPdf, pdf, fmKind, fm, options) ==
    [kind |-> kind, hasAction |-> hasAction, action |-> action, hasPdf |-> hasPdf,
     pdf |-> pdf, fmKind |-> fmKind, fm |-> fm, options |-> options]

\* options is "dict" (a JSON object, or no key) or "notdict" (another JSON value)
Requests ==
    \* what is read is empty, is no JSON, or is JSON but no object
    { Request(k, FALSE, "", FALSE, PdfEmptyText, "missing", <<>>, "dict")
        : k \in {"empty", "badjson", "number", "list"} }
    \cup
    \* objects lacking a key or naming no known action
    { Request("object", a # "", a, p, PdfForm, "missing", <<>>, "dict")
        : a \in {"", "bogus", "inspect", "fill"}, p \in BOOLEAN }
    \cup
    { Request("object", TRUE, "inspect", TRUE, d, "missing", <<>>, "dict") : d \in PdfSamples }
    \cup
    { Request("object", TRUE, "fill", TRUE, d, k, <<>>, "dict")
        : d \in PdfSamples, k \in {"missing", "notdict"} }
    \cup
    { Request("object", TRUE, "fill", TRUE, d, "dict", m, "dict")
        : d \in PdfSamples \ {PdfAtLimit}, m \in Mappings }
    \cup
    { Request("object", TRUE, "fill", TRUE, PdfAtLimit, "dict", m, "dict")
        : m \in {n \in Mappings : Len(n) <= 1} }
    \cup
    { Request("object", TRUE, "fill", TRUE, PdfForm, "dict", m, "notdict") : m \in Mappings }

(***************************************************************************)
(* The checks an operation makes before it calls the engine.               *)
(* [ok, exc, decoded, bytes]: exc is the PdfProcessingError raised,        *)
(* decoded whether base64.b64decode was reached.                           *)
(***************************************************************************)
NoExc == Exc("", {})

Checked(ok, exc, decoded, bytes) ==
    [ok |-> ok, exc |-> exc, decoded |-> decoded, bytes |-> bytes]

\* a decoding that does not look at the signature
DecodeAndSignatureNoMagic(pdf) ==
    IF ~pdf.isStr \/ ~B64Decode(pdf).ok
    THEN Checked(FALSE, PdfProcessingError(Msg("InvalidBase64Encoding", <<>>), "data"), TRUE, <<>>)
    ELSE Checked(TRUE, NoExc, TRUE, B64Decode(pdf).bytes)

DecodeAndSignature(pdf) ==
    LET pdf_bytes == B64Decode(pdf) IN
    IF ~pdf.isStr \/ ~pdf_bytes.ok
    THEN Checked(FALSE, PdfProcessingError(Msg("InvalidBase64Encoding", <<>>), "data"), TRUE, <<>>)
    ELSE IF ~StartsWithPdf(pdf_bytes.bytes)
    THEN Checked(FALSE, PdfProcessingError(Msg("InvalidPdfFormat", <<>>), "data"), TRUE, <<>>)
    ELSE Checked(TRUE, NoExc, TRUE, pdf_bytes.bytes)

InspectPrecheck(pdf) ==
    IF TextLen(pdf) > SizeLimit
    THEN Checked(FALSE, PdfProcessingError(Msg("PdfTooLarge", <<>>), "data"), FALSE, <<>>)
    ELSE DecodeAndSignature(pdf)

FillPrecheck(pdf, fm) ==
    IF TextLen(pdf) > SizeLimit
    THEN Checked(FALSE, PdfProcessingError(Msg("PdfTooLarge", <<>>), "data"), FALSE, <<>>)
    ELSE IF fm = <<>>
    THEN Checked(FALSE, PdfProcessingError(Msg("NoFieldMappings", <<>>), "config"), FALSE, <<>>)
    ELSE DecodeAndSignature(pdf)

\* inspect_pdf's handler of a failure of get_form_fields
ListFailure(text) ==
    IF "corrupt" \in text \/ "damaged" \in text
    THEN PdfProcessingError(Msg("Corrupted", <<>>), "data")
    ELSE IF "password" \in text \/ "encrypted" \in text
    THEN PdfProcessingError(Msg("PasswordProtected", <<>>), "data")
    ELSE PdfProcessingError(Msg("FailedToReadFormFields", <<>>), "runtime")

\* fill_pdf's handler of a failure of write_fillable_pdf
WriteFailure(text) ==
    IF "corrupt" \in text \/ "damaged" \in text
    THEN PdfProcessingError(Msg("Corrupted", <<>>), "data")
    ELSE IF "password" \in text \/ "encrypted" \in text
    THEN PdfProcessingError(Msg("PasswordProtected", <<>>), "data")
    ELSE IF "permission" \in text
    THEN PdfProcessingError(Msg("Restricted", <<>>), "data")
    ELSE IF "field" \in text
    THEN PdfProcessingError(Msg("FieldMappingError", <<>>), "data")
    ELSE PdfProcessingError(Msg("FillingFailed", <<>>), "runtime")

\* an inspection that leaves out the fields whose normalization failed
InspectSuccessSkipFailed(fields) ==
    LET info == [i \in 1..Len(fields) |-> ParseFieldInfo(fields[i].name, fields[i].raw)]
        kept == SelectSeq(info, LAMBDA d : d.parseError = "")
    IN  [Response(TRUE, "absent", Msg("", <<>>), "absent")
           EXCEPT !.fields = kept, !.fieldCount = Len(kept)]

\* inspect_pdf's success envelope
InspectSuccess(fields) ==
    LET info == [i \in 1..Len(fields) |-> ParseFieldInfo(fields[i].name, fields[i].raw)]
    IN  [Response(TRUE, "absent", Msg("", <<>>), "absent")
           EXCEPT !.fields = info, !.fieldCount = Len(info)]

\* fill_pdf's success envelope
FillSuccess(fm) ==
    [Response(TRUE, "absent", Msg("", <<>>), "absent")
       EXCEPT !.hasData = TRUE, !.fieldCount = Len(fm),
              !.filledFieldCount = FilledFieldCount(fm)]

\* the responses main itself builds
ReadFailed    == Failure("config", Msg("FailedToReadInput", <<>>))
InvalidJson   == Failure("config", Msg("InvalidJson", <<>>))
Fallback      == Failure("runtime", Msg("FailedToSerialize", <<>>))
Interrupted   == Failure("runtime", Msg("Interrupted", <<>>))
SystemError   == Response(FALSE, "runtime", Msg("UnexpectedSystemError", <<>>), "exception")

(***************************************************************************)
(* The run of main().                                                      *)
(*   input         the request on the input channel                        *)
(*   pc            where main is                                           *)
(*   output        the objects printed so far                              *)
(*   exitCode      the exit status, -1 while the process runs              *)
(*   result        <<the operation's result>>, <<>> before there is one    *)
(*   verdict       what validate_input_data did: "none" before the call,   *)
(*                 then "valid", "rejected" or "raised"                    *)
(*   events        the library calls made, in order                        *)
(*   listing       what get_form_fields gave the mapping validator         *)
(*   validation    what _validate_field_mappings returned                  *)
(*   fillpdf_data  the coerced mapping                                     *)
(*   writeOutcome  what write_fillable_pdf did: "none" before the call,    *)
(*                 then "ok", "empty" (no bytes written) or "raise"        *)
(***************************************************************************)
VARIABLES input, pc, output, exitCode, result, verdict, events, listing, validation,
          fillpdf_data, writeOutcome

\* The normalization of a listing and the classification of an exception
\* are also run on their own, under NormalizeSpec and ClassifySpec:
\*   fields     what get_form_fields returned to inspect_pdf
\*   inspected  <<inspect_pdf's result for fields>>, <<>> before
\*   raised     the exception handle_exception is given, and the context
\*   handled    <<handle_exception's response>>, <<>> before
VARIABLES fields, inspected, raised, handled

mainVars == <<input, pc, output, exitCode, result, verdict, events, listing, validation,
              fillpdf_data, writeOutcome>>

normVars == <<fields, inspected>>

classVars == <<raised, handled>>

vars == <<mainVars, normVars, classVars>>

NoRaise == [cls |-> "", chars |-> <<>>, error_type |-> "", context |-> ""]

\* nothing is being normalized
NormIdle == fields = <<>> /\ inspected = <<>>

\* nothing is being classified
ClassIdle == raised = NoRaise /\ handled = <<>>

NoValidation == [valid |-> FALSE, error |-> Msg("none", <<>>)]

Init ==
    /\ input \in Requests
    /\ pc = "read"
    /\ output = <<>>
    /\ exitCode = -1
    /\ result = <<>>
    /\ events = <<>>
    /\ listing = NoListing
    /\ validation = NoValidation
    /\ fillpdf_data = <<>>
    /\ verdict = "none"
    /\ writeOutcome = "none"
    /\ NormIdle
    /\ ClassIdle

\* print(json.dumps(r)) followed by sys.exit(1), which is a step of its own
PrintThenExit(r) ==
    /\ output' = Append(output, r)
    /\ pc' = "exit1"

\* an operation ended: main holds its result
Finish(r) ==
    /\ result' = <<r>>
    /\ pc' = "emit"

\* lines 632-642
ReadInput ==
    /\ pc = "read"
    /\ IF input.kind = "empty"
       THEN PrintThenExit(ReadFailed)
       ELSE pc' = "parse" /\ UNCHANGED output
    /\ UNCHANGED <<normVars, classVars, input, exitCode, result, verdict, events, listing, validation, fillpdf_data, writeOutcome>>

\* lines 645-653
ParseInput ==
    /\ pc = "parse"
    /\ IF input.kind = "badjson"
       THEN PrintThenExit(InvalidJson)
       ELSE pc' = "validate" /\ UNCHANGED output
    /\ UNCHANGED <<normVars, classVars, input, exitCode, result, verdict, events, listing, validation, fillpdf_data, writeOutcome>>

\* lines 655-665.  A JSON number has no "in": the TypeError reaches main's
\* catch-all.  A JSON array contains no "action".
ValidateInput ==
    /\ pc = "validate"
    /\ IF input.kind = "number"
       THEN /\ output' = Append(output, SystemError)
            /\ pc' = "handler_exit"
            /\ verdict' = "raised"
            /\ UNCHANGED events
       ELSE LET err == ValidateInputData(input) IN
            /\ events' = IF ValidatorDecodes(input)
                         THEN Append(events, "b64decode") ELSE events
            /\ IF err # NoError
               THEN PrintThenExit(err) /\ verdict' = "rejected"
               ELSE pc' = input.action /\ verdict' = "valid" /\ UNCHANGED output
    /\ UNCHANGED <<normVars, classVars, input, exitCode, result, listing, validation, fillpdf_data, writeOutcome>>

\* inspect_pdf, lines 186-208: the size ceiling, the decoding, the signature
InspectCheck ==
    /\ pc = "inspect"
    /\ LET c == InspectPrecheck(input.pdf) IN
       /\ events' = events \o <<"size_check">>
                      \o (IF c.decoded THEN <<"b64decode">> ELSE <<>>)
       /\ IF c.ok
          THEN pc' = "inspect_list" /\ UNCHANGED result
          ELSE Finish(RaisedResult(c.exc))
    /\ UNCHANGED <<normVars, classVars, input, output, exitCode, verdict, listing, validation, fillpdf_data, writeOutcome>>

\* inspect_pdf, lines 264-265: a statement outside the inner handlers raises
InspectUnexpected ==
    /\ pc = "inspect_list"
    /\ \E e \in UnexpectedFailures : Finish(HandleException(e, "PDF inspection"))
    /\ UNCHANGED <<normVars, classVars, input, output, exitCode, verdict, events, listing, validation, fillpdf_data, writeOutcome>>

\* inspect_pdf, lines 213-259: the listing and the descriptors
InspectList ==
    /\ pc = "inspect_list"
    /\ \E o \in ListingOutcomes(B64Decode(input.pdf).bytes) :
         /\ events' = Append(events, "get_form_fields")
         /\ IF o.kind = "raise"
            THEN Finish(RaisedResult(ListFailure(o.text)))
            ELSE Finish(InspectSuccess(o.fields))
    /\ UNCHANGED <<normVars, classVars, input, output, exitCode, verdict, listing, validation, fillpdf_data, writeOutcome>>

\* fill_pdf, lines 280-311
FillCheck ==
    /\ pc = "fill"
    /\ LET c == FillPrecheck(input.pdf, input.fm) IN
       /\ events' = events \o <<"size_check">>
                      \o (IF c.decoded THEN <<"b64decode">> ELSE <<>>)
       /\ IF c.ok
          THEN pc' = "fill_validate" /\ UNCHANGED result
          ELSE Finish(RaisedResult(c.exc))
    /\ UNCHANGED <<normVars, classVars, input, output, exitCode, verdict, listing, validation, fillpdf_data, writeOutcome>>

\* fill_pdf, lines 403-404: a statement outside the inner handlers raises
FillUnexpected ==
    /\ pc = "fill_validate"
    /\ \E e \in UnexpectedFailures : Finish(HandleException(e, "PDF filling"))
    /\ UNCHANGED <<normVars, classVars, input, output, exitCode, verdict, events, listing, validation, fillpdf_data, writeOutcome>>

\* fill_pdf, lines 313-322, with _validate_field_mappings
FillValidate ==
    /\ pc = "fill_validate"
    /\ \E o \in ListingOutcomes(B64Decode(input.pdf).bytes) :
         LET v == ValidateFieldMappings(o, input.fm) IN
         /\ events' = Append(events, "get_form_fields")
         /\ listing' = o
         /\ validation' = v
         /\ IF v.valid
            THEN pc' = "fill_convert" /\ UNCHANGED result
            ELSE Finish(RaisedResult(PdfProcessingError(v.error, "data")))
    /\ UNCHANGED <<normVars, classVars, input, output, exitCode, verdict, fillpdf_data, writeOutcome>>

\* fill_pdf, lines 324-331, with _convert_field_mappings
FillConvert ==
    /\ pc = "fill_convert"
    /\ LET c == ConvertFieldMappings(input.fm) IN
       IF c.ok
       THEN /\ fillpdf_data' = c.converted
            /\ pc' = "fill_write"
            /\ UNCHANGED result
       ELSE /\ Finish(RaisedResult(
                  PdfProcessingError(Wrap("FailedToConvert", c.error), "data")))
            /\ UNCHANGED fillpdf_data
    /\ UNCHANGED <<normVars, classVars, input, output, exitCode, verdict, events, listing, validation, writeOutcome>>

\* fill_pdf, lines 333-398.  options.get raises before the call when options
\* is no object; the AttributeError's text has none of the markers.
FillWrite ==
    /\ pc = "fill_write"
    /\ IF input.options = "notdict"
       THEN /\ Finish(RaisedResult(WriteFailure({})))
            /\ UNCHANGED <<events, writeOutcome>>
       ELSE \E o \in WriteOutcomes :
              /\ events' = Append(events, "write_fillable_pdf")
              /\ writeOutcome' = o.kind
              /\ CASE o.kind = "ok" -> Finish(FillSuccess(input.fm))
                   [] o.kind = "empty" ->
                        Finish(RaisedResult(
                            PdfProcessingError(Msg("EmptyOutput", <<>>), "runtime")))
                   [] OTHER -> Finish(RaisedResult(WriteFailure(o.text)))
    /\ UNCHANGED <<normVars, classVars, input, output, exitCode, verdict, listing, validation, fillpdf_data>>

\* lines 693-694: the result is serialized and printed
EmitResult ==
    /\ pc = "emit"
    /\ output' = Append(output, result[1])
    /\ pc' = "return"
    /\ UNCHANGED <<normVars, classVars, input, exitCode, result, verdict, events, listing, validation, fillpdf_data, writeOutcome>>

\* lines 695-703: json.dumps(result) raises, the fallback is printed
EmitFallback ==
    /\ pc = "emit"
    /\ PrintThenExit(Fallback)
    /\ UNCHANGED <<normVars, classVars, input, exitCode, result, verdict, events, listing, validation, fillpdf_data, writeOutcome>>

\* main returns: exit status 0
Return ==
    /\ pc = "return"
    /\ pc' = "done"
    /\ exitCode' = 0
    /\ UNCHANGED <<normVars, classVars, input, output, result, verdict, events, listing, validation, fillpdf_data, writeOutcome>>

\* sys.exit(1), in the try block or in a handler of main
Exit1 ==
    /\ pc \in {"exit1", "handler_exit"}
    /\ pc' = "done"
    /\ exitCode' = 1
    /\ UNCHANGED <<normVars, classVars, input, output, result, verdict, events, listing, validation, fillpdf_data, writeOutcome>>

\* the places of main's outer try block
InTry ==
    pc \in {"read", "parse", "validate", "inspect", "inspect_list", "fill",
            "fill_validate", "fill_convert", "fill_write", "emit", "return", "exit1"}

\* lines 705-711: a KeyboardInterrupt arrives while main is in its try block
Interrupt ==
    /\ InTry
    /\ output' = Append(output, Interrupted)
    /\ pc' = "handler_exit"
    /\ UNCHANGED <<normVars, classVars, input, exitCode, result, verdict, events, listing, validation, fillpdf_data, writeOutcome>>

Next ==
    \/ ReadInput
    \/ ParseInput
    \/ ValidateInput
    \/ InspectCheck
    \/ InspectUnexpected
    \/ InspectList
    \/ FillCheck
    \/ FillUnexpected
    \/ FillValidate
    \/ FillConvert
    \/ FillWrite
    \/ EmitResult
    \/ EmitFallback
    \/ Return
    \/ Exit1
    \/ Interrupt

Spec == Init /\ [][Next]_vars

(***************************************************************************)
(* inspect_pdf from the return of get_form_fields on (lines 233-259), for  *)
(* every listing of up to MaxFields raw entries.                           *)
(***************************************************************************)
\* main is not running
MainIdle ==
    /\ input = Request("object", TRUE, "inspect", TRUE, PdfForm, "missing", <<>>, "dict")
    /\ pc = "read"
    /\ output = <<>>
    /\ exitCode = -1
    /\ result = <<>>
    /\ events = <<>>
    /\ listing = NoListing
    /\ validation = NoValidation
    /\ fillpdf_data = <<>>
    /\ verdict = "none"
    /\ writeOutcome = "none"

NormalizeInit ==
    /\ MainIdle
    /\ ClassIdle
    /\ fields \in FieldListings
    /\ inspected = <<>>

Normalize ==
    /\ inspected = <<>>
    /\ inspected' = <<InspectSuccess(fields)>>
    /\ UNCHANGED <<fields, classVars, mainVars>>

NormalizeNext == Normalize

NormalizeSpec == NormalizeInit /\ [][NormalizeNext]_vars

(***************************************************************************)
(* ErrorHandler.handle_exception on its own, for exceptions of every class *)
(* the rules tell apart, with texts in several cases of letters.  The text *)
(* of an exception is a sequence of characters; the classifier sees which  *)
(* of "PDF" and "CORRUPT" str(e).upper() contains.                         *)
(***************************************************************************)
LowerLetters == << "c", "d", "f", "o", "p", "r", "t", "u" >>

UpperLetters == << "C", "D", "F", "O", "P", "R", "T", "U" >>

\* str.upper(), one character
UpperChar(c) ==
    IF \E i \in 1..Len(LowerLetters) : LowerLetters[i] = c
    THEN UpperLetters[CHOOSE i \in 1..Len(LowerLetters) : LowerLetters[i] = c]
    ELSE c

Upper(chars) == [i \in 1..Len(chars) |-> UpperChar(chars[i])]

\* sub in chars
Contains(chars, sub) ==
    \E k \in 0..(Len(chars) - Len(sub)) : SubSeq(chars, k + 1, k + Len(sub)) = sub

\* the markers, of those handle_exception looks for, that the text contains
Markers(chars) ==
    {m \in {"pdf", "corrupt"} :
       Contains(Upper(chars),
                IF m = "pdf" THEN <<"P", "D", "F">>
                ELSE <<"C", "O", "R", "R", "U", "P", "T">>)}

ExceptionTexts ==
    { <<>>,
      <<"p", "d", "f">>,
      <<"n", "o", " ", "P", "D", "F">>,
      <<"P", "d", "f", "!">>,
      <<"p", "d", " ", "f">>,
      <<"C", "o", "R", "r", "u", "p", "t">>,
      <<"c", "o", "r", "r", "u", "p">> }

Contexts == {"", "PDF inspection", "PDF filling"}

\* what handle_exception may be given
Raisings ==
    { [cls |-> c, chars |-> t, error_type |-> "", context |-> x]
        : c \in DOMAIN ClassBases \ {"PdfProcessingError"}, t \in ExceptionTexts, x \in Contexts }
    \cup
    { [cls |-> "PdfProcessingError", chars |-> t, error_type |-> k, context |-> x]
        : t \in {<<>>, <<"p", "d", "f">>}, k \in {"config", "data", "runtime"}, x \in Contexts }

\* the exception object of a raising
ExcOf(r) ==
    IF r.cls = "PdfProcessingError"
    THEN [PdfProcessingError(Msg("Declared", <<>>), r.error_type) EXCEPT !.text = Markers(r.chars)]
    ELSE Exc(r.cls, Markers(r.chars))

ClassifyInit ==
    /\ MainIdle
    /\ NormIdle
    /\ raised \in Raisings
    /\ handled = <<>>

Classify ==
    /\ handled = <<>>
    /\ handled' = <<HandleException(ExcOf(raised), raised.context)>>
    /\ UNCHANGED <<raised, normVars, mainVars>>

ClassifyNext == Classify

ClassifySpec == ClassifyInit /\ [][ClassifyNext]_vars

(***************************************************************************)
(* Vocabulary of the properties.                                           *)
(***************************************************************************)
Called(name) == \E i \in 1..Len(events) : events[i] = name

EngineCalled == Called("get_form_fields") \/ Called("write_fillable_pdf")

HasResult == result # <<>>

\* the operation's result came from handle_exception: a statement outside
\* the engine calls failed (out of memory, a fault of a library)
Unexpected == HasResult /\ result[1].details = "exception"

\* the request passed the Request Validator and names the operation
Dispatched(action) == verdict = "valid" /\ input.action = action

\* the document is within the size ceiling and carries the signature
DocumentOk == InspectPrecheck(input.pdf).ok

\* the names of the document's real fields
RealNames == FieldNamesOf(DocumentFields(B64Decode(input.pdf).bytes))

UnknownKeys == Keys(input.fm) \ RealNames

FailedWith(errorType) ==
    HasResult /\ ~result[1].success /\ result[1].errorType = errorType

Exists(fm, P(_)) == \E i \in 1..Len(fm) : P(fm[i].value)

IsNaN(v) == v.type = "float" /\ v.nan
IsNull(v) == v.type = "null"
IsTooLong(v) == v.type = "str" /\ v.len > MaxValueLen

(***************************************************************************)
(* C1.  write_fillable_pdf is called only after _validate_field_mappings   *)
(* returned valid for the document, after get_form_fields, and every key   *)
(* of the mapping it is given is a field name get_form_fields reported.    *)
(***************************************************************************)
C1_FillOnlyAfterValidation ==
    Called("write_fillable_pdf") =>
      /\ validation.valid
      /\ listing.kind = "ok"
      /\ \E i, j \in 1..Len(events) :
           i < j /\ events[i] = "get_form_fields" /\ events[j] = "write_fillable_pdf"
      /\ {fillpdf_data[k].key : k \in 1..Len(fillpdf_data)}
           \subseteq FieldNamesOf(listing.fields)

\* a fill of two fields reached the engine
C1_Witness ==
    /\ Called("write_fillable_pdf")
    /\ Len(fillpdf_data) = 2
    /\ validation.valid

(***************************************************************************)
(* C2 as stated.  For every document whose fields the engine lists, a      *)
(* fill whose fieldMappings has a key that is no field of the document     *)
(* fails with errorType data and a message that enumerates exactly the     *)
(* unknown keys.                                                           *)
(***************************************************************************)
EnumeratesUnknownKeys ==
    /\ FailedWith("data")
    /\ result[1].error.id = "FieldsNotFound"
    /\ Range(result[1].error.names) = UnknownKeys
    /\ Len(result[1].error.names) = Cardinality(UnknownKeys)

C2_Original ==
    (Dispatched("fill") /\ HasResult /\ listing.kind = "ok" /\ DocumentOk /\ UnknownKeys # {})
      => EnumeratesUnknownKeys

(***************************************************************************)
(* C2 amended.  The same for every document with at least one field: a    *)
(* document without fields is refused as having no fillable fields.        *)
(***************************************************************************)
C2_UnknownKeysEnumerated ==
    (Dispatched("fill") /\ HasResult /\ listing.kind = "ok" /\ listing.fields # <<>>
       /\ DocumentOk /\ UnknownKeys # {})
      => EnumeratesUnknownKeys

\* two unknown keys, given in the reverse of their sorted order, next to none known
C2_Witness ==
    /\ Dispatched("fill") /\ listing.kind = "ok" /\ HasResult
    /\ Len(input.fm) = 2 /\ input.fm[1].key = "Unknown" /\ input.fm[2].key = "Name"
    /\ result[1].error.id = "FieldsNotFound"
    /\ result[1].error.names = <<"Name", "Unknown">>

(***************************************************************************)
(* C3 as stated.  For a document within the size ceiling, with the         *)
(* signature, and engine calls that do not fail, a fill whose keys are a   *)
(* strict subset of the document's field names succeeds, and                *)
(* filledFieldCount is the number of values neither null nor "".           *)
(***************************************************************************)
StrictSubsetRequest ==
    /\ Dispatched("fill") /\ input.options = "dict"
    /\ DocumentOk
    /\ Keys(input.fm) \subseteq RealNames /\ Keys(input.fm) # RealNames

EngineDidNotFail ==
    /\ listing.kind # "raise"
    /\ writeOutcome \in {"none", "ok"}
    /\ ~Unexpected

SucceedsWithCount ==
    /\ result[1].success
    /\ result[1].filledFieldCount
         = Cardinality({i \in 1..Len(input.fm) :
                          ~IsNull(input.fm[i].value) /\ input.fm[i].value # VEmpty})

C3_Original ==
    (HasResult /\ EngineDidNotFail /\ StrictSubsetRequest) => SucceedsWithCount

(***************************************************************************)
(* C3 amended.  The same when fieldMappings is not empty, has a value      *)
(* that is not null, no not-a-number and no string longer than             *)
(* MaxValueLen.                                                            *)
(***************************************************************************)
C3_FillSucceedsWithCount ==
    (HasResult /\ EngineDidNotFail
       /\ input.fm # <<>>
       /\ ~(\A i \in 1..Len(input.fm) : IsNull(input.fm[i].value))
       /\ ~Exists(input.fm, IsNaN) /\ ~Exists(input.fm, IsTooLong)
       /\ StrictSubsetRequest)
      => SucceedsWithCount

\* a successful fill of two of three fields, one of the values being ""
C3_Witness ==
    /\ HasResult /\ EngineDidNotFail /\ StrictSubsetRequest
    /\ result[1].success
    /\ Len(input.fm) = 2
    /\ result[1].filledFieldCount = 1
    /\ Exists(input.fm, LAMBDA v : v = VEmpty)

(***************************************************************************)
(* C4.  The mapping given to write_fillable_pdf is never empty; a fill     *)
(* whose fieldMappings is not empty and has only null values never calls   *)
(* write_fillable_pdf and ends with a failure of errorType data.           *)
(***************************************************************************)
AllNullRequest ==
    /\ Dispatched("fill")
    /\ input.fm # <<>>
    /\ \A i \in 1..Len(input.fm) : IsNull(input.fm[i].value)

C4_NeverFillsWithEmptyMapping ==
    /\ Called("write_fillable_pdf") => fillpdf_data # <<>>
    /\ AllNullRequest =>
         /\ ~Called("write_fillable_pdf")
         /\ (HasResult /\ ~Unexpected) => FailedWith("data")

\* an all-null mapping passed the mapping validator and failed in the coercion
C4_Witness ==
    /\ AllNullRequest /\ Len(input.fm) = 2
    /\ validation.valid
    /\ FailedWith("data")
    /\ result[1].error.id = "NoValidFieldMappings"

(***************************************************************************)
(* C5 as stated.  Every request the Request Validator rejects gets a       *)
(* failure response of errorType config, and neither an operation nor an   *)
(* engine call is made for it.                                             *)
(***************************************************************************)
NothingInvoked ==
    /\ ~HasResult
    /\ ~EngineCalled
    /\ pc \in {"exit1", "handler_exit", "done"}

C5_Original ==
    verdict = "rejected" =>
      /\ Len(output) >= 1 /\ ~output[1].success /\ output[1].errorType = "config"
      /\ NothingInvoked

(***************************************************************************)
(* C5 amended.  Every request the Request Validator rejects gets a         *)
(* failure response, of errorType data when the document is empty or no    *)
(* valid base64 and of errorType config otherwise, and neither an          *)
(* operation nor an engine call is made for it.                            *)
(***************************************************************************)
DocumentRejected ==
    /\ input.hasAction /\ input.hasPdf /\ input.action \in {"inspect", "fill"}
    /\ \/ ~input.pdf.isStr
       \/ TextLen(input.pdf) = 0
       \/ ~B64Decode(input.pdf).ok

C5_RejectedRequests ==
    verdict = "rejected" =>
      /\ Len(output) >= 1 /\ ~output[1].success
      /\ output[1].errorType = IF DocumentRejected THEN "data" ELSE "config"
      /\ NothingInvoked

\* a fill request with a mapping, rejected for a document that is no base64
C5_Witness ==
    /\ verdict = "rejected"
    /\ input.action = "fill" /\ input.fmKind = "dict" /\ input.fm # <<>>
    /\ input.pdf = PdfBadPadding
    /\ output[1].errorType = "data"
    /\ pc = "done"

(***************************************************************************)
(* C6 as stated.  A request that passed the Request Validator, with any    *)
(* fieldMappings, whose decoded document does not start with %PDF ends     *)
(* with a failure of errorType data, and no engine call is made.           *)
(***************************************************************************)
NotPdfRequest ==
    /\ verdict = "valid"
    /\ ~StartsWithPdf(B64Decode(input.pdf).bytes)

Printed(P(_)) == \E i \in 1..Len(output) : P(output[i])

SystemFault == Printed(LAMBDA r : r \in {SystemError, Fallback, Interrupted})

C7_ExitStatusByCategory ==
    pc = "done" =>
      /\ Printed(LAMBDA r : r.errorType = "config") => exitCode # 0
      /\ SystemFault => exitCode # 0
      /\ (HasResult /\ ~SystemFault) => exitCode = 0

(***************************************************************************)
(* C8.  When the process has terminated, exactly one response object has   *)
(* been printed.                                                           *)
(***************************************************************************)
C8_ExactlyOneResponse == pc = "done" => Len(output) = 1

(***************************************************************************)
(* C9.  Every printed response with success false has an errorType among   *)
(* config, data and runtime; every printed response with success true has  *)
(* no errorType.                                                           *)
(***************************************************************************)
WellTyped(r) ==
    IF r.success THEN r.errorType = "absent"
    ELSE r.errorType \in {"config", "data", "runtime"}

C9_ThreeKinds ==
    /\ \A i \in 1..Len(output) : WellTyped(output[i])
    /\ HasResult => WellTyped(result[1])

\* a response of the classifier, for a failure whose text names the PDF, was printed
C9_Witness ==
    /\ Len(output) = 1
    /\ output[1].details = "exception"
    /\ output[1].errorType = "data"
    /\ output[1].error.id = "PdfFileError"

(***************************************************************************)
(* C10 as stated.  For a document with fields and a fieldMappings of       *)
(* known keys, one of whose values is not-a-number, whatever the other     *)
(* entries are: the coercion fails with errorType data and a message that  *)
(* names a not-a-number field, and write_fillable_pdf is not called.       *)
(***************************************************************************)
NaNRequest == Dispatched("fill") /\ Exists(input.fm, IsNaN)

FirstNaNKey ==
    LET i == CHOOSE i \in 1..Len(input.fm) :
               /\ IsNaN(input.fm[i].value)
               /\ \A j \in 1..(i - 1) : ~IsNaN(input.fm[j].value)
    IN  input.fm[i].key

CoercionFailedNaming(S) ==
    /\ FailedWith("data")
    /\ \E i \in 1..Len(result[1].error.wrap) : result[1].error.wrap[i] = "FieldConversionError"
    /\ result[1].error.names # <<>>
    /\ Range(result[1].error.names) \subseteq S

OversizedRequest ==
    /\ input.kind = "object" /\ input.hasAction /\ input.hasPdf
    /\ input.action \in {"inspect", "fill"}
    /\ input.pdf.isStr /\ TextLen(input.pdf) > SizeLimit

DecodedOnlyAfterSizeCheck ==
    \A i \in 1..Len(events) :
      events[i] = "b64decode" => \E j \in 1..(i - 1) : events[j] = "size_check"

C11_SizeCheckBeforeDecode ==
    OversizedRequest =>
      /\ DecodedOnlyAfterSizeCheck
      /\ verdict = "rejected" => output[1].errorType = "data"
      /\ (HasResult /\ ~Unexpected) => FailedWith("data")

(***************************************************************************)
(* Vocabulary of the properties of the normalization.                      *)
(***************************************************************************)
Inspected == inspected # <<>>

\* the descriptor inspect_pdf returned at place i
Desc(i) == inspected[1].fields[i]

\* a conversion of the entry raises while the record or sequence is read
ConversionFails(raw) ==
    CASE raw.shape = "dict" ->
           \/ raw.fails = "type"
           \/ raw.fails = "options" /\ raw.hasOptions /\ raw.optionsIsList /\ raw.items # <<>>
                /\ raw.hint \cap {"radio", "dropdown", "choice"} # {}
                /\ raw.hint \cap {"check", "checkbox"} = {}
           \/ raw.fails = "maxLength" /\ raw.hasMaxLength
                /\ raw.hint \cap {"radio", "dropdown", "choice", "check", "checkbox"} = {}
           \/ raw.fails = "required" /\ raw.hasRequired
           \/ raw.fails = "default" /\ raw.hasDefault /\ ~raw.default.isNull
      [] raw.shape = "list" ->
           raw.fails = "items" /\ \E i \in 1..Len(raw.items) : ~raw.items[i].isNull
      [] OTHER -> FALSE

\* the texts of the entries that are not null, in order
RECURSIVE NonNullTexts(_)
NonNullTexts(items) ==
    IF items = <<>> THEN <<>>
    ELSE IF Head(items).isNull THEN NonNullTexts(Tail(items))
    ELSE <<Head(items).text>> \o NonNullTexts(Tail(items))

(***************************************************************************)
(* C12.  When get_form_fields returned N >= 1 raw entries, of whatever     *)
(* shapes, inspect_pdf returns success with exactly N descriptors, the     *)
(* i-th carrying the name of the i-th entry ("unknown" for an entry        *)
(* without a name), and fieldCount = N.                                    *)
(***************************************************************************)
C12_EveryFieldDescribedInOrder ==
    (Inspected /\ Len(fields) >= 1) =>
      /\ inspected[1].success
      /\ Len(inspected[1].fields) = Len(fields)
      /\ inspected[1].fieldCount = Len(fields)
      /\ \A i \in 1..Len(fields) :
           Desc(i).name = IF fields[i].name = "" THEN "unknown" ELSE fields[i].name

\* an entry without a name comes first, an entry with a failing conversion second
C12_Witness ==
    /\ Inspected /\ Len(fields) = 2
    /\ fields[1].name = "" /\ Desc(1).parseError # ""
    /\ ConversionFails(fields[2].raw) /\ Desc(2).name = fields[2].name

(***************************************************************************)
(* C13.  A field whose raw entry is neither a record nor a sequence, or    *)
(* for which a conversion fails while the record or sequence is read, is   *)
(* described as kind text, required false, defaultValue null, with a       *)
(* parseError.                                                             *)
(***************************************************************************)
C13_FallbackRecordsParseError ==
    Inspected =>
      \A i \in 1..Len(fields) :
        (fields[i].raw.shape = "other" \/ ConversionFails(fields[i].raw)) =>
          /\ Desc(i).type = "text"
          /\ ~Desc(i).required
          /\ Desc(i).defaultValue.isNull
          /\ Desc(i).parseError # ""

(***************************************************************************)
(* C14 as stated.  A field whose raw entry is a sequence, of any length,   *)
(* is described as a dropdown whose options are the texts of the           *)
(* sequence's entries that are not null, in order.                         *)
(***************************************************************************)
IsDropdownOf(d, items) ==
    d.type = "dropdown" /\ d.hasOptions /\ d.options = NonNullTexts(items)

C14_Original ==
    Inspected =>
      \A i \in 1..Len(fields) :
        fields[i].raw.shape = "list" => IsDropdownOf(Desc(i), fields[i].raw.items)

(***************************************************************************)
(* C14 amended.  A named field whose raw entry is a sequence with at       *)
(* least one entry, all of which convert, is described as a dropdown whose *)
(* options are the texts of the entries that are not null, in order (none  *)
(* when all are null); a named field whose raw entry is the empty sequence *)
(* is described as kind text without options.                              *)
(***************************************************************************)
C14_SequenceIsDropdown ==
    Inspected =>
      \A i \in 1..Len(fields) :
        (fields[i].raw.shape = "list" /\ fields[i].name # "") =>
          /\ (Len(fields[i].raw.items) > 0 /\ ~ConversionFails(fields[i].raw))
               => IsDropdownOf(Desc(i), fields[i].raw.items)
          /\ fields[i].raw.items = <<>>
               => (Desc(i).type = "text" /\ ~Desc(i).hasOptions /\ Desc(i).parseError = "")

\* a sequence with a null between two entries, and a sequence of nulls only
C14_Witness ==
    /\ Inspected /\ Len(fields) = 2
    /\ fields[1].raw = RawList /\ fields[1].name # ""
    /\ Desc(1).options = <<"A", "B">>
    /\ fields[2].raw = RawNullList /\ fields[2].name # ""
    /\ Desc(2).type = "dropdown" /\ Desc(2).options = <<>>

(***************************************************************************)
(* C15.  handle_exception gives the errorType of the first rule that       *)
(* matches, in this order: an already classified failure keeps its         *)
(* declared kind; missing resource, data; permission, runtime; out of      *)
(* memory, runtime; value or type failure, data; a text that contains      *)
(* "PDF" or "CORRUPT" in any case of letters, data; otherwise runtime.  A  *)
(* context that is given is put before the message, and the errorType      *)
(* does not depend on it.                                                  *)
(***************************************************************************)
Handled == handled # <<>>

\* the rules on the class of the failure, in the claim's order
KindRules ==
    << <<"PdfProcessingError", "declared">>, <<"FileNotFoundError", "data">>,
       <<"PermissionError", "runtime">>, <<"MemoryError", "runtime">>,
       <<"ValueError", "data">>, <<"TypeError", "data">> >>

MatchingRules(r) == {k \in 1..Len(KindRules) : KindRules[k][1] \in ClassBases[r.cls]}

TextNamesPdf(r) ==
    \/ Contains(Upper(r.chars), <<"P", "D", "F">>)
    \/ Contains(Upper(r.chars), <<"C", "O", "R", "R", "U", "P", "T">>)

ExpectedKind(r) ==
    IF MatchingRules(r) # {}
    THEN LET k == CHOOSE k \in MatchingRules(r) : \A j \in MatchingRules(r) : k <= j
         IN  IF KindRules[k][2] = "declared" THEN r.error_type ELSE KindRules[k][2]
    ELSE IF TextNamesPdf(r) THEN "data" ELSE "runtime"

C15_FirstMatchingRule ==
    Handled =>
      /\ ~handled[1].success
      /\ handled[1].errorType = ExpectedKind(raised)
      /\ IF raised.context = "" THEN handled[1].error.wrap = <<>>
         ELSE handled[1].error.wrap = <<raised.context>>

\* an out-of-memory failure whose text names the PDF, classified with a context
C15_Witness ==
    /\ Handled
    /\ raised.cls = "MemoryError" /\ TextNamesPdf(raised)
    /\ raised.context = "PDF filling"
    /\ handled[1].errorType = "runtime"

=============================================================================
